---- MODULE Spec2Model ----
(***************************************************************************)
(* The commit log's offset index (server/commitlog/index.go): the entry    *)
(* codec, the memory-mapped index store and the sequential scanner.        *)
(*                                                                         *)
(* Integers.  An int32 is a TLA+ integer in -2^31 .. 2^31-1.  An int64     *)
(* (Entry.Offset, Entry.Position, baseOffset) is a record [hi, lo] with    *)
(* value hi * 2^16 + lo and lo in 0 .. 2^16-1, so that values beyond the   *)
(* 32-bit range exist in the model and int32(x) really truncates.  The     *)
(* byte offsets of the store (position, fileOffset, bytes) stay far below  *)
(* any width and are plain integers.                                       *)
(***************************************************************************)
EXTENDS Integers, Sequences, FiniteSets, TLC

\* ---------------------------------------------------------------- constants
offsetWidth == 4
positionWidth == 4
sizeWidth == 4
entryWidth == offsetWidth + positionWidth + sizeWidth

\* ------------------------------------------------------------------- bounds
\* Slots of the pre-allocated index file.
NumSlots == 2
\* Longest batch one WriteEntries call is given.
MaxBatch == 2

\* --------------------------------------------------------- integer plumbing
\* int64 values are kept in two limbs of 16 bits.
Limb == 256 * 256
HalfLimb == Limb \div 2

\* The int64 with value hi * 2^16 + lo.
I64(h, l) == [hi |-> h, lo |-> l]
\* int64(n) for an integer n of the 32-bit range.
ToI64(n) == [hi |-> n \div Limb, lo |-> n % Limb]
I64Zero == ToI64(0)
\* a + b and a - b on int64 (no value of the model nears 2^63).
I64Add(a, b) ==
    LET s == a.lo + b.lo
    IN  [hi |-> a.hi + b.hi + (IF s >= Limb THEN 1 ELSE 0), lo |-> s % Limb]
I64Sub(a, b) ==
    LET d == a.lo - b.lo
    IN  [hi |-> a.hi - b.hi - (IF d < 0 THEN 1 ELSE 0), lo |-> d % Limb]
I64Less(a, b) == a.hi < b.hi \/ (a.hi = b.hi /\ a.lo < b.lo)
\* Go's conversion int32(x) of an int64: the low 32 bits, two's complement.
Int32Of(x) ==
    LET h == x.hi % Limb
    IN  (IF h >= HalfLimb THEN h - Limb ELSE h) * Limb + x.lo

\* ---------------------------------------------------------------- the codec
Entry(o, p, s) == [Offset |-> o, Position |-> p, Size |-> s]

\* Mutant: the offset is stored as it is, not relative to the base.
newRelEntry_Absolute(e, baseOffset) ==
    [Offset   |-> Int32Of(e.Offset),
     Position |-> Int32Of(e.Position),
     Size     |-> e.Size]

newRelEntry(e, baseOffset) ==
    [Offset   |-> Int32Of(I64Sub(e.Offset, baseOffset)),
     Position |-> Int32Of(e.Position),
     Size     |-> e.Size]

fill(rel, baseOffset) ==
    Entry(I64Add(baseOffset, ToI64(rel.Offset)), ToI64(rel.Position), rel.Size)

\* The byte order of the file (proto.Encoding).
Encoding == "BigEndian"

Reverse(s) == [i \in 1..Len(s) |-> s[Len(s) + 1 - i]]

\* The four bytes of an int32 in the file's byte order.
Int32Bytes(v) ==
    LET h  == (v \div Limb) % Limb
        l  == v % Limb
        be == <<h \div 256, h % 256, l \div 256, l % 256>>
    IN  IF Encoding = "BigEndian" THEN be ELSE Reverse(be)

BytesInt32(b) ==
    LET be == IF Encoding = "BigEndian" THEN b ELSE Reverse(b)
        h  == be[1] * 256 + be[2]
        l  == be[3] * 256 + be[4]
    IN  (IF h >= HalfLimb THEN h - Limb ELSE h) * Limb + l

\* binary.Write(b, proto.Encoding, relEntry): the entryWidth bytes of a record.
EncodeRel(rel) ==
    Int32Bytes(rel.Offset) \o Int32Bytes(rel.Position) \o Int32Bytes(rel.Size)

\* binary.Read(b, proto.Encoding, rel) of entryWidth bytes.
DecodeRel(p) ==
    [Offset   |-> BytesInt32(SubSeq(p, 1, offsetWidth)),
     Position |-> BytesInt32(SubSeq(p, offsetWidth + 1, offsetWidth + positionWidth)),
     Size     |-> BytesInt32(SubSeq(p, offsetWidth + positionWidth + 1, entryWidth))]

\* ---------------------------------------------------------------- the store
VARIABLES
    opts,       \* options: [bytes, baseOffset] (the path plays no part)
    file,       \* the backing file's bytes; while open, idx.mmap maps all of it
    position,   \* idx.position
    status,     \* "open", "closed" (after Close) or "crashed" (a panic)
    scanner,    \* <<>> or <<[offset |-> n]>>: the IndexScanner in use
    last,       \* history: the most recent call, what it returned, and the
                \* store-changing call before it
    log,        \* history: [known, entries], the entries the callers appended
                \* since the store was last empty
    codec,      \* the codec taken alone: an entry on its way through the record
    mu,         \* idx.mu: [writer, readers], the threads holding the RWMutex
    pc,         \* per thread: where it stands in its call
    loc         \* per thread: the call's arguments, locals and result

storeVars == <<opts, file, position, status, scanner, last, log>>
threadVars == <<mu, pc, loc>>
vars == <<opts, file, position, status, scanner, last, log, codec, mu, pc, loc>>

\* Threads that call into one index concurrently.
Threads == {1, 2, 3}
NoThreads == [t \in Threads |-> "idle"]
NoLocals == [t \in Threads |-> <<>>]
Unlocked == [writer |-> 0, readers |-> {}]
NoCodec == [pc |-> "idle"]

roundDown(total, factor) == factor * (total \div factor)

\* Requested sizes: one that needs rounding down, to NumSlots slots.
BytesOptions == {NumSlots * entryWidth + 5}
BaseOffsets == {ToI64(0), ToI64(100)}

\* What callers append: the first two records of a segment, and an entry whose
\* position and size are both zero.
EntryInputs(baseOffset) ==
    { Entry(I64Add(baseOffset, ToI64(t[1])), ToI64(t[2]), t[3]) :
        t \in {<<0, 0, 50>>, <<1, 50, 60>>, <<2, 0, 0>>} }

RECURSIVE SeqsUpTo(_, _)
SeqsUpTo(S, n) ==
    IF n = 0 THEN {<<>>}
    ELSE LET shorter == SeqsUpTo(S, n - 1)
         IN  shorter \cup {Append(q, x) : q \in {r \in shorter : Len(r) = n - 1}, x \in S}

\* One call appends consecutive records of the segment: offsets strictly increasing.
Increasing(entries) ==
    \A i \in 1..(Len(entries) - 1) : I64Less(entries[i].Offset, entries[i + 1].Offset)
Batches(baseOffset) ==
    {b \in SeqsUpTo(EntryInputs(baseOffset), MaxBatch) : b # <<>> /\ Increasing(b)}
FileOffsets ==
    {i * entryWidth : i \in 0..(NumSlots + 1)} \cup {entryWidth \div 2}
TruncateNumbers == (-1)..(NumSlots + 1)

Zeros(n) == [i \in 1..n |-> 0]
Min(a, b) == IF a < b THEN a ELSE b

\* file.Truncate(size): cut, or extend with zero bytes.
Resize(f, size) == [i \in 1..size |-> IF i <= Len(f) THEN f[i] ELSE 0]

\* The calls that change the store when they return without error.
Changes(call) ==
    /\ call.op \in {"NewIndex", "WriteEntries", "TruncateEntries", "InitializePosition", "Close"}
    /\ call.err = "nil"

\* arg: the integer argument (fileOffset, number, the scanner's offset), else 0.
\* after: the most recent earlier call that changed the store.
Call(op, arg, err, entry) ==
    [op |-> op, arg |-> arg, err |-> err, entry |-> entry,
     after |-> IF Changes(last) THEN last.op ELSE last.after]

\* copy(idx.mmap[offset:], p) under the write lock. Slicing past the mapping panics;
\* copy moves as many bytes as both sides hold.
WriteAt(mmap, p, offset) ==
    IF offset < 0 \/ offset > Len(mmap)
    THEN [panic |-> TRUE, mmap |-> mmap, n |-> 0]
    ELSE LET n == Min(Len(mmap) - offset, Len(p))
         IN  [panic |-> FALSE,
              mmap  |-> [i \in 1..Len(mmap) |->
                            IF offset < i /\ i <= offset + n THEN p[i - offset] ELSE mmap[i]],
              n     |-> n]

\* Mutant: the bound forgets the record's width.
ReadAt_NoWidth(mmap, pos, offset) ==
    IF pos < offset
    THEN [err |-> "EOF", p |-> <<>>]
    ELSE IF offset < 0 \/ offset + entryWidth > Len(mmap)
    THEN [err |-> "panic", p |-> <<>>]
    ELSE [err |-> "nil", p |-> SubSeq(mmap, offset + 1, offset + entryWidth)]

ReadAt(mmap, pos, offset) ==
    IF pos < offset + entryWidth
    THEN [err |-> "EOF", p |-> <<>>]
    ELSE IF offset < 0 \/ offset + entryWidth > Len(mmap)
    THEN [err |-> "panic", p |-> <<>>]
    ELSE [err |-> "nil", p |-> SubSeq(mmap, offset + 1, offset + entryWidth)]

\* The result [err, entry]; entry is <<>> or <<e>>.
ReadEntryAtFileOffset(mmap, pos, baseOffset, fileOffset) ==
    LET r == ReadAt(mmap, pos, fileOffset)
    IN  IF r.err # "nil"
        THEN [err |-> r.err, entry |-> <<>>]
        ELSE [err |-> "nil", entry |-> <<fill(DecodeRel(r.p), baseOffset)>>]

ReadEntryAtLogOffset(mmap, pos, baseOffset, logOffset) ==
    ReadEntryAtFileOffset(mmap, pos, baseOffset, logOffset * entryWidth)

RECURSIVE EncodeAll(_, _)
EncodeAll(entries, baseOffset) ==
    IF entries = <<>> THEN <<>>
    ELSE EncodeRel(newRelEntry(Head(entries), baseOffset))
            \o EncodeAll(Tail(entries), baseOffset)

\* Mutant: a slot counts as empty as soon as its position is zero.
RECURSIVE Search_PositionOnly(_, _, _, _, _)
Search_PositionOnly(mmap, pos, baseOffset, lo, hi) ==
    IF lo >= hi THEN [panic |-> FALSE, i |-> lo]
    ELSE LET h == (lo + hi) \div 2
             r == ReadEntryAtFileOffset(mmap, pos, baseOffset, h * entryWidth)
         IN  IF r.err # "nil" THEN [panic |-> TRUE, i |-> lo]
             ELSE IF ~(r.entry[1].Position = I64Zero)
                  THEN Search_PositionOnly(mmap, pos, baseOffset, h + 1, hi)
                  ELSE Search_PositionOnly(mmap, pos, baseOffset, lo, h)

\* Mutant: the search stops at the first empty slot it probes.
RECURSIVE Search_FirstProbe(_, _, _, _, _)
Search_FirstProbe(mmap, pos, baseOffset, lo, hi) ==
    IF lo >= hi THEN [panic |-> FALSE, i |-> lo]
    ELSE LET h == (lo + hi) \div 2
             r == ReadEntryAtFileOffset(mmap, pos, baseOffset, h * entryWidth)
         IN  IF r.err # "nil" THEN [panic |-> TRUE, i |-> lo]
             ELSE IF ~(r.entry[1].Position = I64Zero /\ r.entry[1].Size = 0)
                  THEN Search_FirstProbe(mmap, pos, baseOffset, h + 1, hi)
                  ELSE [panic |-> FALSE, i |-> h]

\* sort.Search(n, f) with f(i) the closure of InitializePosition: the smallest i
\* in [lo, hi] with f(i), probing the middle; a failed read panics.
RECURSIVE Search(_, _, _, _, _)
Search(mmap, pos, baseOffset, lo, hi) ==
    IF lo >= hi THEN [panic |-> FALSE, i |-> lo]
    ELSE LET h == (lo + hi) \div 2
             r == ReadEntryAtFileOffset(mmap, pos, baseOffset, h * entryWidth)
         IN  IF r.err # "nil" THEN [panic |-> TRUE, i |-> lo]
             ELSE IF ~(r.entry[1].Position = I64Zero /\ r.entry[1].Size = 0)
                  THEN Search(mmap, pos, baseOffset, h + 1, hi)
                  ELSE Search(mmap, pos, baseOffset, lo, h)

Slots(bytes) == bytes \div entryWidth
InSync == log.known /\ position = entryWidth * Len(log.entries)
Known(entries) == [known |-> TRUE, entries |-> entries]
Unknown == [known |-> FALSE, entries |-> <<>>]

\* A first NewIndex(opts) on a path that holds no file yet.
Init ==
    /\ opts \in [bytes : BytesOptions, baseOffset : BaseOffsets]
    /\ file = Zeros(roundDown(opts.bytes, entryWidth))
    /\ position = Len(file)
    /\ status = "open"
    /\ scanner = <<>>
    /\ last = [op |-> "NewIndex", arg |-> 0, err |-> "nil", entry |-> <<>>,
               after |-> "none"]
    /\ log = Unknown
    /\ codec = NoCodec
    /\ mu = Unlocked
    /\ pc = NoThreads
    /\ loc = NoLocals

\* NewIndex(opts) on the file a previous run left: after a Close, after a panic
\* or after the process ended without either.
NewIndex ==
    /\ file' = Resize(file, roundDown(opts.bytes, entryWidth))
    /\ position' = Len(file')
    /\ status' = "open"
    /\ scanner' = <<>>
    /\ last' = Call("NewIndex", 0, "nil", <<>>)
    /\ UNCHANGED <<opts, log>>

\* Mutant: the batch is written at the start and position is set to its end.
WriteEntries_FromStart(entries) ==
    /\ status = "open"
    /\ LET b == EncodeAll(entries, opts.baseOffset)
           w == WriteAt(file, b, 0)
       IN  /\ file' = w.mmap
           /\ position' = entryWidth * Len(entries)
           /\ status' = status
           /\ last' = Call("WriteEntries", 0, "nil", <<>>)
           /\ log' = Known(entries)
    /\ UNCHANGED <<opts, scanner>>

WriteEntries(entries) ==
    /\ status = "open"
    /\ LET b == EncodeAll(entries, opts.baseOffset)
           w == WriteAt(file, b, position)
       IN  IF w.panic
           THEN /\ status' = "crashed"
                /\ last' = Call("WriteEntries", 0, "panic", <<>>)
                /\ UNCHANGED <<file, position, log>>
           ELSE /\ file' = w.mmap
                /\ position' = position + entryWidth * Len(entries)
                /\ status' = status
                /\ last' = Call("WriteEntries", 0, "nil", <<>>)
                /\ log' = IF InSync THEN Known(log.entries \o entries) ELSE Unknown
    /\ UNCHANGED <<opts, scanner>>

\* A read leaves the store alone; a panic ends the process.
Read(op, arg, r) ==
    /\ last' = Call(op, arg, r.err, r.entry)
    /\ status' = IF r.err = "panic" THEN "crashed" ELSE status
    /\ UNCHANGED <<opts, file, position, scanner, log>>

ReadFileOffset(fileOffset) ==
    /\ status = "open"
    /\ Read("ReadEntryAtFileOffset", fileOffset,
            ReadEntryAtFileOffset(file, position, opts.baseOffset, fileOffset))

\* Mutant: the check passes but position is not rewound.
TruncateEntries_NoRewind(number) ==
    /\ status = "open"
    /\ IF number * entryWidth > position
       THEN /\ last' = Call("TruncateEntries", number, "bad truncate number", <<>>)
            /\ UNCHANGED <<position, log>>
       ELSE /\ position' = position
            /\ last' = Call("TruncateEntries", number, "nil", <<>>)
            /\ log' = log
    /\ UNCHANGED <<opts, file, status, scanner>>

\* Mutant: the check refuses a truncate to the current number of entries.
TruncateEntries_Strict(number) ==
    /\ status = "open"
    /\ IF number * entryWidth >= position
       THEN /\ last' = Call("TruncateEntries", number, "bad truncate number", <<>>)
            /\ UNCHANGED <<position, log>>
       ELSE /\ position' = number * entryWidth
            /\ last' = Call("TruncateEntries", number, "nil", <<>>)
            /\ log' = IF number = 0 THEN Known(<<>>)
                      ELSE IF InSync /\ number > 0
                           THEN Known(SubSeq(log.entries, 1, number))
                           ELSE Unknown
    /\ UNCHANGED <<opts, file, status, scanner>>

TruncateEntries(number) ==
    /\ status = "open"
    /\ IF number * entryWidth > position
       THEN /\ last' = Call("TruncateEntries", number, "bad truncate number", <<>>)
            /\ UNCHANGED <<position, log>>
       ELSE /\ position' = number * entryWidth
            /\ last' = Call("TruncateEntries", number, "nil", <<>>)
            /\ log' = IF number = 0 THEN Known(<<>>)
                      ELSE IF InSync /\ number > 0
                           THEN Known(SubSeq(log.entries, 1, number))
                           ELSE Unknown
    /\ UNCHANGED <<opts, file, status, scanner>>

\* Mutant: the last entry is returned without the check of its offset.
InitializePosition_Unchecked ==
    /\ status = "open"
    /\ LET n == Slots(opts.bytes)
           s == Search(file, position, opts.baseOffset, 0, n)
           r == ReadEntryAtFileOffset(file, s.i * entryWidth, opts.baseOffset,
                                      (s.i - 1) * entryWidth)
           err == IF s.i = 0 THEN "nil" ELSE r.err
       IN  IF s.panic
           THEN /\ status' = "crashed"
                /\ last' = Call("InitializePosition", 0, "panic", <<>>)
                /\ UNCHANGED <<position, log>>
           ELSE /\ position' = s.i * entryWidth
                /\ status' = IF err = "panic" THEN "crashed" ELSE status
                /\ last' = Call("InitializePosition", 0, err,
                                IF s.i > 0 /\ err = "nil" THEN r.entry ELSE <<>>)
                /\ log' = IF s.i = 0 THEN Known(<<>>)
                          ELSE IF log.known /\ s.i = Len(log.entries) THEN log
                          ELSE Unknown
    /\ UNCHANGED <<opts, file, scanner>>

InitializePosition ==
    /\ status = "open"
    /\ LET n == Slots(opts.bytes)
           s == Search(file, position, opts.baseOffset, 0, n)
           r == ReadEntryAtFileOffset(file, s.i * entryWidth, opts.baseOffset,
                                      (s.i - 1) * entryWidth)
           err == IF s.i = 0 THEN "nil"
                  ELSE IF r.err # "nil" THEN r.err
                  ELSE IF I64Less(r.entry[1].Offset, opts.baseOffset) THEN "ErrIndexCorrupt"
                  ELSE IF (s.i * entryWidth) % entryWidth # 0 THEN "ErrIndexCorrupt"
                  ELSE "nil"
       IN  IF s.panic
           THEN /\ status' = "crashed"
                /\ last' = Call("InitializePosition", 0, "panic", <<>>)
                /\ UNCHANGED <<position, log>>
           ELSE /\ position' = s.i * entryWidth
                /\ status' = IF err = "panic" THEN "crashed" ELSE status
                /\ last' = Call("InitializePosition", 0, err,
                                IF s.i > 0 /\ err = "nil" THEN r.entry ELSE <<>>)
                /\ log' = IF s.i = 0 THEN Known(<<>>)
                          ELSE IF log.known /\ s.i = Len(log.entries) THEN log
                          ELSE Unknown
    /\ UNCHANGED <<opts, file, scanner>>

\* file.Sync and mmap.Sync change nothing a caller of the index can see.
Sync ==
    /\ status = "open"
    /\ last' = Call("Sync", 0, "nil", <<>>)
    /\ UNCHANGED <<opts, file, position, status, scanner, log>>

\* Sync, file.Truncate(idx.position), file.Close. Truncate refuses a negative
\* size and Close then returns that error with the file still open.
Close ==
    /\ status = "open"
    /\ IF position < 0
       THEN /\ last' = Call("Close", 0, "EINVAL", <<>>)
            /\ UNCHANGED <<file, status, scanner>>
       ELSE /\ file' = Resize(file, position)
            /\ status' = "closed"
            /\ scanner' = <<>>
            /\ last' = Call("Close", 0, "nil", <<>>)
    /\ log' = IF InSync THEN log ELSE Unknown
    /\ UNCHANGED <<opts, position>>

NewIndexScanner ==
    /\ status = "open"
    /\ scanner' = <<[offset |-> 0]>>
    /\ last' = Call("NewIndexScanner", 0, "nil", <<>>)
    /\ UNCHANGED <<opts, file, position, status, log>>

\* Mutant: a zero offset ends the scan in slot 0 too.
Scan_NoFirstSlot ==
    /\ status = "open"
    /\ scanner # <<>>
    /\ LET s == scanner[1]
           r == ReadEntryAtLogOffset(file, position, opts.baseOffset, s.offset)
       IN  IF r.err # "nil"
           THEN /\ last' = Call("Scan", s.offset, r.err, <<>>)
                /\ status' = IF r.err = "panic" THEN "crashed" ELSE status
                /\ UNCHANGED scanner
           ELSE IF r.entry[1].Offset = I64Zero
           THEN /\ last' = Call("Scan", s.offset, "EOF", <<>>)
                /\ UNCHANGED <<scanner, status>>
           ELSE /\ scanner' = <<[offset |-> s.offset + 1]>>
                /\ last' = Call("Scan", s.offset, "nil", r.entry)
                /\ UNCHANGED status
    /\ UNCHANGED <<opts, file, position, log>>

\* Mutant: the scanner's offset is advanced whatever the read returned.
Scan_AlwaysAdvances ==
    /\ status = "open"
    /\ scanner # <<>>
    /\ LET s == scanner[1]
           r == ReadEntryAtLogOffset(file, position, opts.baseOffset, s.offset)
       IN  /\ scanner' = <<[offset |-> s.offset + 1]>>
           /\ IF r.err # "nil"
              THEN /\ last' = Call("Scan", s.offset, r.err, <<>>)
                   /\ status' = IF r.err = "panic" THEN "crashed" ELSE status
              ELSE IF r.entry[1].Offset = I64Zero /\ s.offset # 0
              THEN /\ last' = Call("Scan", s.offset, "EOF", <<>>)
                   /\ UNCHANGED status
              ELSE /\ last' = Call("Scan", s.offset, "nil", r.entry)
                   /\ UNCHANGED status
    /\ UNCHANGED <<opts, file, position, log>>

Scan ==
    /\ status = "open"
    /\ scanner # <<>>
    /\ LET s == scanner[1]
           r == ReadEntryAtLogOffset(file, position, opts.baseOffset, s.offset)
       IN  IF r.err # "nil"
           THEN /\ last' = Call("Scan", s.offset, r.err, <<>>)
                /\ status' = IF r.err = "panic" THEN "crashed" ELSE status
                /\ UNCHANGED scanner
           ELSE IF r.entry[1].Offset = I64Zero /\ s.offset # 0
           THEN /\ last' = Call("Scan", s.offset, "EOF", <<>>)
                /\ UNCHANGED <<scanner, status>>
           ELSE /\ scanner' = <<[offset |-> s.offset + 1]>>
                /\ last' = Call("Scan", s.offset, "nil", r.entry)
                /\ UNCHANGED status
    /\ UNCHANGED <<opts, file, position, log>>

\* The codec and the threads stand still.
Apart == UNCHANGED <<codec, mu, pc, loc>>

Next ==
    \/ NewIndex /\ Apart
    \/ \E entries \in Batches(opts.baseOffset) : WriteEntries(entries) /\ Apart
    \/ \E fileOffset \in FileOffsets : ReadFileOffset(fileOffset) /\ Apart
    \/ \E number \in TruncateNumbers : TruncateEntries(number) /\ Apart
    \/ InitializePosition /\ Apart
    \/ Sync /\ Apart
    \/ Close /\ Apart

\* The store in single-threaded use, without a scanner.
Spec == Init /\ [][Next]_vars

NextScan ==
    \/ NewIndex /\ Apart
    \/ \E entries \in Batches(opts.baseOffset) : WriteEntries(entries) /\ Apart
    \/ \E number \in TruncateNumbers : TruncateEntries(number) /\ Apart
    \/ InitializePosition /\ Apart
    \/ NewIndexScanner /\ Apart
    \/ Scan /\ Apart

\* The store with a scanner over it.
SpecScan == Init /\ [][NextScan]_vars

\* ------------------------------------------------- a file of an earlier run
\* What a slot of a file left by an earlier run holds: nothing, the first two
\* records of a segment, or a record whose relative offset is negative.
SlotInputs ==
    {Zeros(entryWidth)} \cup
    { EncodeRel([Offset |-> t[1], Position |-> t[2], Size |-> t[3]]) :
        t \in {<<0, 0, 50>>, <<1, 50, 60>>, <<-1, 50, 60>>} }

RECURSIVE Flatten(_)
Flatten(q) == IF q = <<>> THEN <<>> ELSE Head(q) \o Flatten(Tail(q))

\* NewIndex(opts) on a file of the requested size that an earlier run left.
InitOpened ==
    /\ opts \in [bytes : BytesOptions, baseOffset : BaseOffsets]
    /\ \E q \in SeqsUpTo(SlotInputs, Slots(opts.bytes)) :
          /\ Len(q) = Slots(opts.bytes)
          /\ file = Flatten(q)
    /\ position = Len(file)
    /\ status = "open"
    /\ scanner = <<>>
    /\ last = [op |-> "NewIndex", arg |-> 0, err |-> "nil", entry |-> <<>>,
               after |-> "none"]
    /\ log = Unknown
    /\ codec = NoCodec
    /\ mu = Unlocked
    /\ pc = NoThreads
    /\ loc = NoLocals

NextOpened ==
    \/ InitializePosition /\ Apart
    \/ \E fileOffset \in FileOffsets : ReadFileOffset(fileOffset) /\ Apart
    \/ NewIndexScanner /\ Apart
    \/ Scan /\ Apart

\* Recovery, reads and scans of a store opened on an earlier run's file.
SpecOpened == InitOpened /\ [][NextOpened]_vars

\* ---------------------------------------------------------- the codec alone
MaxInt32 == I64(HalfLimb - 1, Limb - 1)

\* Base offsets, distances of an offset to the base, positions and sizes, on both
\* sides of the 32-bit range: 2^31 - 1 = I64(2^15 - 1, 2^16 - 1), 2^31 = I64(2^15, 0).
CodecBases == {ToI64(0), ToI64(100), I64(Limb * 256, 7)}
CodecDistances ==
    {ToI64(-1), ToI64(0), ToI64(1), MaxInt32, I64(HalfLimb, 0), I64(Limb, 1)}
CodecPositions == {ToI64(0), ToI64(50), MaxInt32, I64(HalfLimb, 0), I64(Limb, 50)}
CodecSizes == {0, 50, Int32Of(MaxInt32)}

\* A store nothing is done to, under the codec's own specification.
InitCodec ==
    /\ opts = [bytes |-> NumSlots * entryWidth, baseOffset |-> ToI64(0)]
    /\ file = Zeros(roundDown(opts.bytes, entryWidth))
    /\ position = Len(file)
    /\ status = "open"
    /\ scanner = <<>>
    /\ last = [op |-> "NewIndex", arg |-> 0, err |-> "nil", entry |-> <<>>,
               after |-> "none"]
    /\ log = Unknown
    /\ mu = Unlocked
    /\ pc = NoThreads
    /\ loc = NoLocals
    /\ \E b \in CodecBases, d \in CodecDistances, p \in CodecPositions, z \in CodecSizes :
          codec = [pc |-> "entry", e |-> Entry(I64Add(b, d), p, z), baseOffset |-> b]

\* newRelEntry(entry, idx.baseOffset)
CodecRelative ==
    /\ codec.pc = "entry"
    /\ codec' = [pc |-> "rel", e |-> codec.e, baseOffset |-> codec.baseOffset,
                 rel |-> newRelEntry(codec.e, codec.baseOffset)]
    /\ UNCHANGED <<storeVars, threadVars>>

\* binary.Write(b, proto.Encoding, relEntry)
CodecWrite ==
    /\ codec.pc = "rel"
    /\ codec' = [pc |-> "bytes", e |-> codec.e, baseOffset |-> codec.baseOffset,
                 p |-> EncodeRel(codec.rel)]
    /\ UNCHANGED <<storeVars, threadVars>>

\* binary.Read(b, proto.Encoding, rel)
CodecRead ==
    /\ codec.pc = "bytes"
    /\ codec' = [pc |-> "read", e |-> codec.e, baseOffset |-> codec.baseOffset,
                 rel |-> DecodeRel(codec.p)]
    /\ UNCHANGED <<storeVars, threadVars>>

\* rel.fill(e, idx.baseOffset)
CodecFill ==
    /\ codec.pc = "read"
    /\ codec' = [pc |-> "filled", e |-> codec.e, baseOffset |-> codec.baseOffset,
                 out |-> fill(codec.rel, codec.baseOffset)]
    /\ UNCHANGED <<storeVars, threadVars>>

NextCodec ==
    \/ CodecRelative
    \/ CodecWrite
    \/ CodecRead
    \/ CodecFill

\* An entry encoded against a base offset, written, read and decoded again.
SpecCodec == InitCodec /\ [][NextCodec]_vars

\* -------------------------------------------------------------- the threads
\* One call runs as the steps between its lock operations; a thread's pc names
\* the statement it is about to run, and another thread may run between any two.
Appender == 1
Readers == Threads \ {Appender}

\* idx.mu.Lock() returns once no thread holds the lock; RLock once no writer does.
Lock(t) ==
    /\ mu.writer = 0 /\ mu.readers = {}
    /\ mu' = [mu EXCEPT !.writer = t]
Unlock(t) == mu' = [mu EXCEPT !.writer = 0]
RLock(t) ==
    /\ mu.writer = 0
    /\ mu' = [mu EXCEPT !.readers = @ \cup {t}]
RUnlock(t) == mu' = [mu EXCEPT !.readers = @ \ {t}]

Goto(t, label) == pc' = [pc EXCEPT ![t] = label]

\* Mutant: position is advanced before the bytes are copied.
WriteEntriesOrder_AdvanceFirst(label) ==
    CASE label = "begin"        -> "Lock"
      [] label = "Lock"         -> "add"
      [] label = "add"          -> "WriteAt.Lock"
      [] label = "WriteAt.Lock" -> "WriteAt.copy"
      [] label = "WriteAt.copy" -> "idle"

\* The statements of WriteEntries in program order: the statement after `label`.
WriteEntriesOrder(label) ==
    CASE label = "begin"        -> "WriteAt.Lock"
      [] label = "WriteAt.Lock" -> "WriteAt.copy"
      [] label = "WriteAt.copy" -> "Lock"
      [] label = "Lock"         -> "add"
      [] label = "add"          -> "idle"

\* WriteEntries up to the call of WriteAt: the bytes are encoded and idx.position,
\* WriteAt's argument, is read without the lock.
WriteBegin(t, entries) ==
    /\ status = "open" /\ pc[t] = "idle"
    /\ loc' = [loc EXCEPT ![t] = [op |-> "WriteEntries", entries |-> entries,
                                  b |-> EncodeAll(entries, opts.baseOffset),
                                  offset |-> position, err |-> "running"]]
    /\ Goto(t, WriteEntriesOrder("begin"))
    /\ log' = IF log.known THEN Known(log.entries \o entries) ELSE log
    /\ UNCHANGED <<opts, file, position, status, scanner, last, codec, mu>>

WriteAtLock(t) ==
    /\ status = "open" /\ pc[t] = "WriteAt.Lock"
    /\ Lock(t)
    /\ Goto(t, WriteEntriesOrder("WriteAt.Lock"))
    /\ UNCHANGED <<storeVars, codec, loc>>

\* copy(idx.mmap[offset:], p) and the deferred Unlock; a panic ends the process.
WriteAtCopy(t) ==
    /\ status = "open" /\ pc[t] = "WriteAt.copy"
    /\ LET w == WriteAt(file, loc[t].b, loc[t].offset)
       IN  /\ file' = w.mmap
           /\ status' = IF w.panic THEN "crashed" ELSE status
    /\ Unlock(t)
    /\ Goto(t, WriteEntriesOrder("WriteAt.copy"))
    /\ loc' = IF pc'[t] = "idle" THEN [loc EXCEPT ![t].err = "nil"] ELSE loc
    /\ UNCHANGED <<opts, position, scanner, last, log, codec>>

WriteLock(t) ==
    /\ status = "open" /\ pc[t] = "Lock"
    /\ Lock(t)
    /\ Goto(t, WriteEntriesOrder("Lock"))
    /\ UNCHANGED <<storeVars, codec, loc>>

\* idx.position += entryWidth * len(entries), Unlock.
WriteAdd(t) ==
    /\ status = "open" /\ pc[t] = "add"
    /\ position' = position + entryWidth * Len(loc[t].entries)
    /\ Unlock(t)
    /\ Goto(t, WriteEntriesOrder("add"))
    /\ loc' = IF pc'[t] = "idle" THEN [loc EXCEPT ![t].err = "nil"] ELSE loc
    /\ UNCHANGED <<opts, file, status, scanner, last, log, codec>>

\* TruncateEntries: Lock ...
TruncateLock(t, number) ==
    /\ status = "open" /\ pc[t] = "idle"
    /\ Lock(t)
    /\ loc' = [loc EXCEPT ![t] = [op |-> "TruncateEntries", number |-> number,
                                  err |-> "running"]]
    /\ Goto(t, "truncate")
    /\ UNCHANGED <<storeVars, codec>>

\* ... the check, the assignment and the deferred Unlock.
TruncateBody(t) ==
    /\ status = "open" /\ pc[t] = "truncate"
    /\ IF loc[t].number * entryWidth > position
       THEN /\ loc' = [loc EXCEPT ![t].err = "bad truncate number"]
            /\ UNCHANGED position
       ELSE /\ position' = loc[t].number * entryWidth
            /\ loc' = [loc EXCEPT ![t].err = "nil"]
    /\ Unlock(t)
    /\ Goto(t, "idle")
    /\ UNCHANGED <<opts, file, status, scanner, last, log, codec>>

\* ReadEntryAtFileOffset: ReadAt's RLock ...
ReadAtRLock(t, fileOffset) ==
    /\ status = "open" /\ pc[t] = "idle"
    /\ RLock(t)
    /\ loc' = [loc EXCEPT ![t] = [op |-> "ReadEntryAtFileOffset",
                                  fileOffset |-> fileOffset, p |-> <<>>]]
    /\ Goto(t, "ReadAt")
    /\ UNCHANGED <<storeVars, codec>>

\* ... the bound, the copy out of the mapping and the deferred RUnlock; the call
\* returns io.EOF here, or goes on to decode the bytes.
ReadAtBody(t) ==
    /\ status = "open" /\ pc[t] = "ReadAt"
    /\ LET r == ReadAt(file, position, loc[t].fileOffset)
       IN  /\ status' = IF r.err = "panic" THEN "crashed" ELSE status
           /\ IF r.err = "nil"
              THEN /\ loc' = [loc EXCEPT ![t].p = r.p]
                   /\ Goto(t, "fill.RLock")
              ELSE /\ loc' = [loc EXCEPT ![t] = <<>>]
                   /\ Goto(t, "idle")
    /\ RUnlock(t)
    /\ UNCHANGED <<opts, file, position, scanner, last, log, codec>>

FillRLock(t) ==
    /\ status = "open" /\ pc[t] = "fill.RLock"
    /\ RLock(t)
    /\ Goto(t, "fill")
    /\ UNCHANGED <<storeVars, codec, loc>>

\* rel.fill(e, idx.baseOffset), RUnlock, and the entry is the caller's.
FillBody(t) ==
    /\ status = "open" /\ pc[t] = "fill"
    /\ RUnlock(t)
    /\ loc' = [loc EXCEPT ![t] = <<>>]
    /\ Goto(t, "idle")
    /\ UNCHANGED <<storeVars, codec>>

\* The entry a reader that holds the bytes p is about to return.
Filled(t) == fill(DecodeRel(loc[t].p), opts.baseOffset)

\* An empty store: a fresh file after NewIndex and InitializePosition.
InitEmpty ==
    /\ opts \in [bytes : BytesOptions, baseOffset : BaseOffsets]
    /\ file = Zeros(roundDown(opts.bytes, entryWidth))
    /\ position = 0
    /\ status = "open"
    /\ scanner = <<>>
    /\ last = [op |-> "InitializePosition", arg |-> 0, err |-> "nil", entry |-> <<>>,
               after |-> "NewIndex"]
    /\ log = Known(<<>>)
    /\ codec = NoCodec
    /\ mu = Unlocked
    /\ pc = NoThreads
    /\ loc = NoLocals

NextRW ==
    \/ \E entries \in Batches(opts.baseOffset) : WriteBegin(Appender, entries)
    \/ WriteAtLock(Appender)
    \/ WriteAtCopy(Appender)
    \/ WriteLock(Appender)
    \/ WriteAdd(Appender)
    \/ \E t \in Readers, s \in 0..NumSlots : ReadAtRLock(t, s * entryWidth)
    \/ \E t \in Readers : ReadAtBody(t)
    \/ \E t \in Readers : FillRLock(t)
    \/ \E t \in Readers : FillBody(t)

\* One thread appends while the others read.
SpecRW == InitEmpty /\ [][NextRW]_vars

Writers == {1, 2}

\* Each writer thread makes one call, an append or a truncation.
NextWW ==
    \/ \E t \in Writers, entries \in Batches(opts.baseOffset) :
           loc[t] = <<>> /\ WriteBegin(t, entries)
    \/ \E t \in Writers : WriteAtLock(t)
    \/ \E t \in Writers : WriteAtCopy(t)
    \/ \E t \in Writers : WriteLock(t)
    \/ \E t \in Writers : WriteAdd(t)
    \/ \E t \in Writers, number \in 0..NumSlots :
           loc[t] = <<>> /\ TruncateLock(t, number)
    \/ \E t \in Writers : TruncateBody(t)

\* Two threads write to an empty store.
SpecWW == InitEmpty /\ [][NextWW]_vars

\* --------------------------------------------------- every call, in threads
\* Threads that call every operation of one index.
Callers == {1, 2}

\* The lock requests a call starts with or comes to between two of its critical
\* sections: the pc at the request, the kind of lock, the pc once it is granted.
LockRequests ==
    { <<"TruncateEntries.Lock", "Lock", "truncate">>,
      <<"ReadAt.RLock", "RLock", "ReadAt">>,
      <<"Sync.Lock", "Lock", "sync">>,
      <<"probe.ReadAt.RLock", "RLock", "probe.ReadAt">>,
      <<"probe.fill.RLock", "RLock", "probe.fill">>,
      <<"position.Lock", "Lock", "position">>,
      <<"last.ReadAt.RLock", "RLock", "last.ReadAt">>,
      <<"last.fill.RLock", "RLock", "last.fill">>,
      <<"check.RLock", "RLock", "check">> }

\* idx.mu.Lock() or idx.mu.RLock() returns to thread t.
Acquire(t) ==
    /\ status = "open"
    /\ \E q \in LockRequests :
          /\ pc[t] = q[1]
          /\ IF q[2] = "Lock" THEN Lock(t) ELSE RLock(t)
          /\ Goto(t, q[3])
    /\ UNCHANGED <<storeVars, codec, loc>>

\* TruncateEntries(number) is called.
CallTruncateEntries(t, number) ==
    /\ status = "open" /\ pc[t] = "idle"
    /\ loc' = [loc EXCEPT ![t] = [op |-> "TruncateEntries", number |-> number,
                                  err |-> "running"]]
    /\ Goto(t, "TruncateEntries.Lock")
    /\ UNCHANGED <<storeVars, codec, mu>>

\* ReadEntryAtFileOffset(e, fileOffset) is called: by the caller, or by Scan for
\* the slot its scanner stands at (its check and s.offset++ touch no lock).
CallRead(t, op, fileOffset) ==
    /\ status = "open" /\ pc[t] = "idle"
    /\ loc' = [loc EXCEPT ![t] = [op |-> op, fileOffset |-> fileOffset, p |-> <<>>]]
    /\ Goto(t, "ReadAt.RLock")
    /\ UNCHANGED <<storeVars, codec, mu>>

CallSync(t) ==
    /\ status = "open" /\ pc[t] = "idle"
    /\ loc' = [loc EXCEPT ![t] = [op |-> "Sync"]]
    /\ Goto(t, "Sync.Lock")
    /\ UNCHANGED <<storeVars, codec, mu>>

\* file.Sync, mmap.Sync and the deferred Unlock.
SyncBody(t) ==
    /\ status = "open" /\ pc[t] = "sync"
    /\ Unlock(t)
    /\ loc' = [loc EXCEPT ![t] = <<>>]
    /\ Goto(t, "idle")
    /\ UNCHANGED <<storeVars, codec>>

\* The pc at which the search goes on: the next probe, or the end of the search.
SearchGoesOn(lo, hi) == IF lo < hi THEN "probe.ReadAt.RLock" ELSE "position.Lock"

\* InitializePosition is called: sort.Search over [0, n).
CallInitializePosition(t) ==
    /\ status = "open" /\ pc[t] = "idle"
    /\ loc' = [loc EXCEPT ![t] = [op |-> "InitializePosition", lo |-> 0,
                                  hi |-> Slots(opts.bytes), p |-> <<>>]]
    /\ Goto(t, SearchGoesOn(0, Slots(opts.bytes)))
    /\ UNCHANGED <<storeVars, codec, mu>>

\* The closure's ReadAt of the middle slot; an error of the read is a panic.
ProbeReadAt(t) ==
    /\ status = "open" /\ pc[t] = "probe.ReadAt"
    /\ LET h == (loc[t].lo + loc[t].hi) \div 2
           r == ReadAt(file, position, h * entryWidth)
       IN  /\ status' = IF r.err # "nil" THEN "crashed" ELSE status
           /\ loc' = [loc EXCEPT ![t].p = r.p]
           /\ Goto(t, "probe.fill.RLock")
    /\ RUnlock(t)
    /\ UNCHANGED <<opts, file, position, scanner, last, log, codec>>

\* The closure's fill and its answer: the search keeps the half the answer names.
ProbeFill(t) ==
    /\ status = "open" /\ pc[t] = "probe.fill"
    /\ LET h == (loc[t].lo + loc[t].hi) \div 2
           e == fill(DecodeRel(loc[t].p), opts.baseOffset)
           lo == IF e.Position = I64Zero /\ e.Size = 0 THEN loc[t].lo ELSE h + 1
           hi == IF e.Position = I64Zero /\ e.Size = 0 THEN h ELSE loc[t].hi
       IN  /\ loc' = [loc EXCEPT ![t].lo = lo, ![t].hi = hi]
           /\ Goto(t, SearchGoesOn(lo, hi))
    /\ RUnlock(t)
    /\ UNCHANGED <<storeVars, codec>>

\* idx.position = int64(i * entryWidth), Unlock; an empty index returns here.
SetPosition(t) ==
    /\ status = "open" /\ pc[t] = "position"
    /\ position' = loc[t].lo * entryWidth
    /\ Unlock(t)
    /\ IF loc[t].lo = 0
       THEN loc' = [loc EXCEPT ![t] = <<>>] /\ Goto(t, "idle")
       ELSE UNCHANGED loc /\ Goto(t, "last.ReadAt.RLock")
    /\ UNCHANGED <<opts, file, status, scanner, last, log, codec>>

\* The ReadAt of slot i-1; its error is returned.
LastReadAt(t) ==
    /\ status = "open" /\ pc[t] = "last.ReadAt"
    /\ LET r == ReadAt(file, position, (loc[t].lo - 1) * entryWidth)
       IN  /\ status' = IF r.err = "panic" THEN "crashed" ELSE status
           /\ IF r.err = "nil"
              THEN loc' = [loc EXCEPT ![t].p = r.p] /\ Goto(t, "last.fill.RLock")
              ELSE loc' = [loc EXCEPT ![t] = <<>>] /\ Goto(t, "idle")
    /\ RUnlock(t)
    /\ UNCHANGED <<opts, file, position, scanner, last, log, codec>>

\* The fill of slot i-1 and the check of its offset.
LastFill(t) ==
    /\ status = "open" /\ pc[t] = "last.fill"
    /\ RUnlock(t)
    /\ IF I64Less(fill(DecodeRel(loc[t].p), opts.baseOffset).Offset, opts.baseOffset)
       THEN loc' = [loc EXCEPT ![t] = <<>>] /\ Goto(t, "idle")
       ELSE UNCHANGED loc /\ Goto(t, "check.RLock")
    /\ UNCHANGED <<storeVars, codec>>

\* idx.position % entryWidth under the read lock, the deferred RUnlock, return.
CheckPosition(t) ==
    /\ status = "open" /\ pc[t] = "check"
    /\ RUnlock(t)
    /\ loc' = [loc EXCEPT ![t] = <<>>]
    /\ Goto(t, "idle")
    /\ UNCHANGED <<storeVars, codec>>

\* What the callers append and ask for.
CallerBatches(baseOffset) ==
    {<<Entry(I64Add(baseOffset, ToI64(1)), ToI64(50), 60)>>}
CallerOffsets == {0, entryWidth}

\* An empty store, as InitEmpty, with no record kept of what is appended.
InitCallers ==
    /\ opts \in [bytes : BytesOptions, baseOffset : BaseOffsets]
    /\ file = Zeros(roundDown(opts.bytes, entryWidth))
    /\ position = 0
    /\ status = "open"
    /\ scanner = <<>>
    /\ last = [op |-> "InitializePosition", arg |-> 0, err |-> "nil", entry |-> <<>>,
               after |-> "NewIndex"]
    /\ log = Unknown
    /\ codec = NoCodec
    /\ mu = Unlocked
    /\ pc = NoThreads
    /\ loc = NoLocals

\* A step of a call that thread t has made.
Step(t) ==
    \/ Acquire(t)
    \/ WriteAtLock(t)
    \/ WriteAtCopy(t)
    \/ WriteLock(t)
    \/ WriteAdd(t)
    \/ TruncateBody(t)
    \/ ReadAtBody(t)
    \/ FillRLock(t)
    \/ FillBody(t)
    \/ SyncBody(t)
    \/ ProbeReadAt(t)
    \/ ProbeFill(t)
    \/ SetPosition(t)
    \/ LastReadAt(t)
    \/ LastFill(t)
    \/ CheckPosition(t)

NextCallers ==
    \/ \E t \in Callers, entries \in CallerBatches(opts.baseOffset) : WriteBegin(t, entries)
    \/ \E t \in Callers, number \in 0..1 : CallTruncateEntries(t, number)
    \/ \E t \in Callers, fileOffset \in CallerOffsets :
          CallRead(t, "ReadEntryAtFileOffset", fileOffset)
    \/ \E t \in Callers, fileOffset \in CallerOffsets : CallRead(t, "Scan", fileOffset)
    \/ \E t \in Callers : CallSync(t)
    \/ \E t \in Callers : CallInitializePosition(t)
    \/ \E t \in Callers : Acquire(t)
    \/ \E t \in Callers : WriteAtLock(t)
    \/ \E t \in Callers : WriteAtCopy(t)
    \/ \E t \in Callers : WriteLock(t)
    \/ \E t \in Callers : WriteAdd(t)
    \/ \E t \in Callers : TruncateBody(t)
    \/ \E t \in Callers : ReadAtBody(t)
    \/ \E t \in Callers : FillRLock(t)
    \/ \E t \in Callers : FillBody(t)
    \/ \E t \in Callers : SyncBody(t)
    \/ \E t \in Callers : ProbeReadAt(t)
    \/ \E t \in Callers : ProbeFill(t)
    \/ \E t \in Callers : SetPosition(t)
    \/ \E t \in Callers : LastReadAt(t)
    \/ \E t \in Callers : LastFill(t)
    \/ \E t \in Callers : CheckPosition(t)

\* Threads call every operation; a call that was made goes on whenever it can, and
\* sync.RWMutex grants a lock that is requested again and again.
SpecCallers == InitCallers /\ [][NextCallers]_vars /\ \A t \in Callers : SF_vars(Step(t))

\* ------------------------------------------------------------------- claims
\* The entry the bytes of one record's width at fileOffset of f decode to.
StoredAt(f, baseOffset, fileOffset) ==
    fill(DecodeRel(SubSeq(f, fileOffset + 1, fileOffset + entryWidth)), baseOffset)

\* Slot s lies in f and decodes to e.
SlotHolds(f, baseOffset, s, e) ==
    /\ s >= 0
    /\ (s + 1) * entryWidth <= Len(f)
    /\ StoredAt(f, baseOffset, s * entryWidth) = e

\* The store-changing call the store's state results from.
LastChange == IF Changes(last) THEN last.op ELSE last.after

\* C1: a read at any fileOffset >= 0 fails with io.EOF if fileOffset + entryWidth >
\* position and otherwise returns the entry stored there; right after k entries were
\* appended to an empty store, slot k is io.EOF and slot k-1 is the last appended entry.
C1_ReadContract ==
    [][\A fileOffset \in FileOffsets :
         ReadFileOffset(fileOffset) =>
            /\ IF fileOffset + entryWidth > position
               THEN last'.err = "EOF"
               ELSE /\ last'.err = "nil"
                    /\ last'.entry = <<StoredAt(file, opts.baseOffset, fileOffset)>>
            /\ (InSync /\ fileOffset = entryWidth * Len(log.entries))
                  => last'.err = "EOF"
            /\ (InSync /\ fileOffset = entryWidth * (Len(log.entries) - 1))
                  => last'.entry = <<log.entries[Len(log.entries)]>>
      ]_storeVars

\* C2: from an empty store, position is entryWidth times the number of entries
\* appended; every WriteEntries that returns nil advances position by entryWidth *
\* len(entries) and leaves the i-th entry in slot (old position / entryWidth) + i.
C2_AppendContract ==
    [][\A entries \in Batches(opts.baseOffset) :
         (WriteEntries(entries) /\ last'.err = "nil") =>
            /\ position' = position + entryWidth * Len(entries)
            /\ log'.known => position' = entryWidth * Len(log'.entries)
            /\ \A i \in 1..Len(entries) :
                  SlotHolds(file', opts.baseOffset,
                            (position \div entryWidth) + i - 1, entries[i])
      ]_storeVars

\* C3: a successful TruncateEntries(m), m >= 0, followed by a WriteEntries of j >= 1
\* entries that fit the capacity leaves position = (m + j) * entryWidth, and slot m
\* then reads back the first of the new entries.
C3_TruncateThenAppend ==
    [][(last.op = "TruncateEntries" /\ last.err = "nil" /\ last.arg >= 0) =>
         \A entries \in Batches(opts.baseOffset) :
            ( /\ (last.arg + Len(entries)) * entryWidth <= Len(file)
              /\ WriteEntries(entries) ) =>
               /\ last'.err = "nil"
               /\ position' = (last.arg + Len(entries)) * entryWidth
               /\ ReadEntryAtLogOffset(file', position', opts.baseOffset, last.arg)
                     = [err |-> "nil", entry |-> <<entries[1]>>]
      ]_storeVars

\* A store of NumSlots entries was cut to fewer and refilled to NumSlots: the
\* append overwrote a slot that held a discarded entry.
C3_Witness ==
    /\ last.op = "WriteEntries" /\ last.err = "nil" /\ last.after = "TruncateEntries"
    /\ InSync /\ Len(log.entries) = NumSlots
    /\ file # Zeros(Len(file))

NoSentinel(entries) ==
    \A i \in 1..Len(entries) :
        ~(entries[i].Position = I64Zero /\ entries[i].Size = 0)

\* C4: k entries, none with position and size both zero, are appended to an empty
\* store of at least k slots; the store is closed and opened again with the same
\* capacity. InitializePosition then sets position = k * entryWidth and returns
\* the k-th entry, or no entry when k = 0.
C4_Recovery ==
    [][( /\ last.op = "NewIndex" /\ last.after = "Close"
         /\ log.known /\ Len(log.entries) <= Slots(opts.bytes)
         /\ NoSentinel(log.entries)
         /\ InitializePosition ) =>
            /\ position' = entryWidth * Len(log.entries)
            /\ last'.err = "nil"
            /\ last'.entry = IF log.entries = <<>> THEN <<>>
                             ELSE <<log.entries[Len(log.entries)]>>
      ]_storeVars

\* Recovery right after a reopen found the end of a store that is neither empty
\* nor full.
C4_Witness ==
    /\ last.op = "InitializePosition" /\ last.err = "nil" /\ last.after = "NewIndex"
    /\ log.known /\ NoSentinel(log.entries)
    /\ Len(log.entries) = NumSlots - 1
    /\ position = entryWidth * (NumSlots - 1)
    /\ last.entry = <<log.entries[NumSlots - 1]>>

\* C8: TruncateEntries(number) returns the bad-truncate error, changing neither
\* position nor a byte of the mapping, when number * entryWidth > position, and
\* otherwise returns nil with position = number * entryWidth.
C8_TruncateContract ==
    [][last'.op = "TruncateEntries" =>
         IF last'.arg * entryWidth > position
         THEN /\ last'.err = "bad truncate number"
              /\ position' = position
              /\ file' = file
         ELSE /\ last'.err = "nil"
              /\ position' = last'.arg * entryWidth
      ]_storeVars

\* A truncate forward was refused on a store that holds an entry.
C8_Witness ==
    /\ last.op = "TruncateEntries" /\ last.err = "bad truncate number"
    /\ last.arg = NumSlots
    /\ InSync /\ Len(log.entries) = NumSlots - 1

SlotsRead == 0..(NumSlots + 1)

\* C9: a successful TruncateEntries(m) changes position and no byte of the mapping:
\* right after it every slot below m reads as it did before and every slot from m
\* on fails with io.EOF.
C9_TruncateFrame ==
    [][(last'.op = "TruncateEntries" /\ last'.err = "nil") =>
         /\ file' = file
         /\ opts' = opts
         /\ \A s \in SlotsRead :
               LET before == ReadEntryAtLogOffset(file, position, opts.baseOffset, s)
                   after  == ReadEntryAtLogOffset(file', position', opts'.baseOffset, s)
               IN  IF s < last'.arg THEN after = before ELSE after.err = "EOF"
      ]_storeVars

\* A full store was cut to one entry: slot 0 still reads the first entry, slot 1
\* is io.EOF though its bytes are still in the mapping.
C9_Witness ==
    /\ last.op = "TruncateEntries" /\ last.err = "nil" /\ last.arg = 1
    /\ InSync /\ Len(log.entries) = 1
    /\ ReadEntryAtLogOffset(file, position, opts.baseOffset, 0)
          = [err |-> "nil", entry |-> <<log.entries[1]>>]
    /\ ReadEntryAtLogOffset(file, position, opts.baseOffset, 1).err = "EOF"
    /\ SubSeq(file, entryWidth + 1, 2 * entryWidth) # Zeros(entryWidth)

\* C5: on a store of k entries appended in increasing offset order, a scanner that
\* has returned c entries returns the (c+1)-th appended entry when c < k and fails
\* with io.EOF when c = k: from offset 0 it yields the k entries in order, then io.EOF.
C5_ScanAll ==
    [][( /\ InSync /\ Len(log.entries) <= Slots(opts.bytes)
         /\ Increasing(log.entries)
         /\ Scan /\ scanner[1].offset <= Len(log.entries) ) =>
            LET c == scanner[1].offset
            IN  IF c < Len(log.entries)
                THEN /\ last'.err = "nil"
                     /\ last'.entry = <<log.entries[c + 1]>>
                     /\ scanner'[1].offset = c + 1
                ELSE /\ last'.err = "EOF"
                     /\ last'.entry = <<>>
      ]_storeVars

\* The scanner has returned every entry of a full store and then met io.EOF.
C5_Witness ==
    /\ last.op = "Scan" /\ last.err = "EOF" /\ last.arg = NumSlots
    /\ scanner # <<>> /\ scanner[1].offset = NumSlots
    /\ InSync /\ Len(log.entries) = NumSlots /\ Increasing(log.entries)

\* The relative offset and the position fit their 32-bit signed fields.
Representable(e, baseOffset) ==
    /\ ~I64Less(e.Offset, baseOffset)
    /\ ~I64Less(MaxInt32, I64Sub(e.Offset, baseOffset))
    /\ ~I64Less(e.Position, I64Zero)
    /\ ~I64Less(MaxInt32, e.Position)

\* C10 as claimed: every entry with offset >= baseOffset comes back from the record
\* with its offset, position and size.
C10_RoundTripAll ==
    (codec.pc = "filled" /\ ~I64Less(codec.e.Offset, codec.baseOffset))
        => codec.out = codec.e

\* C10 as amended: an entry with 0 <= offset - baseOffset <= 2^31 - 1 and
\* 0 <= position <= 2^31 - 1 comes back from the record with its offset, position
\* and size; an entry with offset >= baseOffset and position >= 0 outside these
\* ranges does not.
C10_RoundTrip ==
    (codec.pc = "filled" /\ ~I64Less(codec.e.Offset, codec.baseOffset)
                         /\ ~I64Less(codec.e.Position, I64Zero))
        => (codec.out = codec.e <=> Representable(codec.e, codec.baseOffset))

\* The largest relative offset and position, against a base offset beyond 2^32,
\* came back unchanged.
C10_Witness ==
    /\ codec.pc = "filled"
    /\ I64Less(MaxInt32, codec.baseOffset)
    /\ I64Sub(codec.e.Offset, codec.baseOffset) = MaxInt32
    /\ codec.e.Position = MaxInt32
    /\ codec.out = codec.e

\* C6: with one appender and concurrent readers, a read of slot s that passed the
\* bound holds the whole record of the entry the appender wrote to slot s, and
\* returns that entry.
C6_ReadsWholeRecords ==
    \A t \in Readers :
        pc[t] \in {"fill.RLock", "fill"} =>
            LET s == loc[t].fileOffset \div entryWidth
            IN  /\ s < Len(log.entries)
                /\ loc[t].p = EncodeRel(newRelEntry(log.entries[s + 1], opts.baseOffset))
                /\ Filled(t) = log.entries[s + 1]

\* A reader holds the record of slot 0 while the appender is between its copy of
\* the next batch and the advance of position.
C6_Witness ==
    /\ \E t \in Readers : pc[t] = "fill" /\ loc[t].fileOffset = 0
    /\ pc[Appender] \in {"Lock", "add"}
    /\ position = entryWidth
    /\ Len(log.entries) > 1

\* What a store shows: its position and the bytes of the slots below it.
Visible(mmap, pos) == [position |-> pos, slots |-> SubSeq(mmap, 1, Min(pos, Len(mmap)))]

\* The store after the call `call` has run alone on the store st.
RunAlone(st, call) ==
    IF call.op = "WriteEntries"
    THEN LET w == WriteAt(st.mmap, EncodeAll(call.entries, opts.baseOffset), st.position)
         IN  [mmap |-> w.mmap, position |-> st.position + entryWidth * Len(call.entries)]
    ELSE IF call.number * entryWidth > st.position
         THEN st
         ELSE [st EXCEPT !.position = call.number * entryWidth]

EmptyStore == [mmap |-> Zeros(Len(file)), position |-> 0]

WritersDone == status = "open" /\ \A t \in Writers : pc[t] = "idle" /\ loc[t] # <<>>

\* C7: once two concurrent writer calls on an empty store have returned, the
\* store shows what the two calls leave when run one after the other, in one
\* order or the other.
C7_Serialized ==
    WritersDone =>
        \E t \in Writers : \E u \in Writers \ {t} :
            LET st == RunAlone(RunAlone(EmptyStore, loc[t]), loc[u])
            IN  Visible(file, position) = Visible(st.mmap, st.position)

\* C11 as claimed: on one store instance (NewIndex makes a new one) position is
\* lowered by a successful TruncateEntries only.
C11_OnlyTruncateLowers ==
    [][position' < position =>
         \/ last'.op = "NewIndex"
         \/ last'.op = "TruncateEntries" /\ last'.err = "nil"
      ]_storeVars

\* C11 as amended: position is lowered only by a successful TruncateEntries and by
\* an InitializePosition that finished its search; WriteEntries, the reads, Sync
\* and Close never lower it.
C11_TruncateOrRecoveryLowers ==
    [][position' < position =>
         \/ last'.op = "NewIndex"
         \/ last'.op = "TruncateEntries" /\ last'.err = "nil"
         \/ last'.op = "InitializePosition" /\ last'.err # "panic"
      ]_storeVars

\* Recovery after a reopen set position below the file's length, where NewIndex
\* had put it, and above zero.
C11_Witness ==
    /\ last.op = "InitializePosition" /\ last.err = "nil" /\ last.after = "NewIndex"
    /\ 0 < position /\ position < Len(file)

\* C12: after a Close that returns nil the file is position bytes long and holds
\* the records of the slots below position, which are the records of the entries
\* appended since the store was empty.
C12_CloseContract ==
    [][(last'.op = "Close" /\ last'.err = "nil") =>
         /\ Len(file') = position
         /\ position <= Len(file) => file' = SubSeq(file, 1, position)
         /\ InSync => file' = EncodeAll(log.entries, opts.baseOffset)
      ]_storeVars

\* C13: no call of the store panics: every call returns, with an error or without.
C13_NoPanic == last.err # "panic" /\ status # "crashed"

\* C14 as claimed: every Scan call leaves the scanner's offset one greater.
C14_ScanAlwaysAdvances ==
    [][last'.op = "Scan" => scanner'[1].offset = scanner[1].offset + 1]_storeVars

\* C14 as amended: a Scan call that returns an entry leaves the scanner's offset
\* one greater; a Scan call that fails, with io.EOF from the read or at a slot
\* whose offset decodes to zero, leaves it unchanged.
C14_ScanAdvancesOnEntry ==
    [][last'.op = "Scan" =>
         scanner'[1].offset = scanner[1].offset + (IF last'.err = "nil" THEN 1 ELSE 0)
      ]_storeVars

\* A scanner that returned an entry failed at the next slot and still stands there.
C14_Witness ==
    /\ last.op = "Scan" /\ last.err = "EOF" /\ last.arg > 0
    /\ scanner # <<>> /\ scanner[1].offset = last.arg

\* Slot i of f decodes to position 0 and size 0.
IsSentinel(f, i) ==
    LET rel == DecodeRel(SubSeq(f, i * entryWidth + 1, (i + 1) * entryWidth))
    IN  rel.Position = 0 /\ rel.Size = 0

\* The slots of f below k are no sentinels and the slots from k on are all zero.
PrefixThenZeros(f, k) ==
    /\ \A i \in 0..(k - 1) : ~IsSentinel(f, i)
    /\ \A j \in (k * entryWidth + 1)..Len(f) : f[j] = 0

\* The linear scan: the first sentinel slot of f, or the number of slots.
FirstSentinel(f) ==
    LET n == Len(f) \div entryWidth
    IN  CHOOSE i \in 0..n :
            /\ i = n \/ IsSentinel(f, i)
            /\ \A j \in 0..(i - 1) : ~IsSentinel(f, j)

\* C15: on a freshly opened store whose slots are non-sentinel entries followed
\* by zero bytes only, InitializePosition sets position to entryWidth times the
\* first sentinel slot a linear scan finds, the number of slots if there is none.
C15_SearchIsLinearScan ==
    [][( /\ last.op = "NewIndex"
         /\ \E k \in 0..Slots(opts.bytes) : PrefixThenZeros(file, k)
         /\ InitializePosition ) =>
            /\ last'.err # "panic"
            /\ position' = entryWidth * FirstSentinel(file)
      ]_storeVars

\* Recovery on a reopened store without an empty slot put position at the end.
C15_Witness ==
    /\ last.op = "InitializePosition" /\ last.after = "NewIndex"
    /\ PrefixThenZeros(file, NumSlots)
    /\ FirstSentinel(file) = NumSlots
    /\ position = entryWidth * NumSlots

\* C16: an InitializePosition that found the first empty slot i > 0 returns
\* ErrIndexCorrupt exactly when the entry of slot i-1 has an offset below
\* baseOffset, and returns that entry otherwise; with i = 0 it returns no entry
\* and no error.
C16_SanityCheck ==
    [][(last'.op = "InitializePosition" /\ last'.err # "panic") =>
         LET i == position' \div entryWidth
             e == StoredAt(file, opts.baseOffset, (i - 1) * entryWidth)
         IN  /\ position' = i * entryWidth
             /\ IF i = 0
                THEN last'.err = "nil" /\ last'.entry = <<>>
                ELSE IF I64Less(e.Offset, opts.baseOffset)
                THEN last'.err = "ErrIndexCorrupt" /\ last'.entry = <<>>
                ELSE last'.err = "nil" /\ last'.entry = <<e>>
      ]_storeVars

\* Recovery found a last entry whose stored relative offset is negative.
C16_Witness ==
    /\ last.op = "InitializePosition" /\ last.err = "ErrIndexCorrupt"
    /\ position > 0
    /\ DecodeRel(SubSeq(file, position - entryWidth + 1, position)).Offset < 0

\* The relative record in slot i of f.
RelAt(f, i) == DecodeRel(SubSeq(f, i * entryWidth + 1, (i + 1) * entryWidth))

\* Slots 0..k-1 of f hold records with ascending relative offsets from 0 on, none
\* of them all zero, and every byte from slot k on is zero.
WrittenThenZeros(f, k) ==
    /\ \A i \in 0..(k - 1) :
          /\ SubSeq(f, i * entryWidth + 1, (i + 1) * entryWidth) # Zeros(entryWidth)
          /\ RelAt(f, i).Offset >= 0
          /\ i > 0 => RelAt(f, i - 1).Offset < RelAt(f, i).Offset
    /\ \A j \in (k * entryWidth + 1)..Len(f) : f[j] = 0

\* C17: on a store with k >= 1 written slots, zero slots after them and position
\* beyond slot k, a Scan at a slot below k returns that slot's entry and a Scan at
\* slot k or beyond fails with io.EOF: no entry is decoded from an unwritten slot.
C17_ScanStopsAtZeroSlot ==
    [][\A k \in 1..(NumSlots - 1) :
         ( /\ last'.op = "Scan"
           /\ WrittenThenZeros(file, k)
           /\ position > k * entryWidth ) =>
            IF last'.arg < k
            THEN /\ last'.err = "nil"
                 /\ last'.entry = <<StoredAt(file, opts.baseOffset, last'.arg * entryWidth)>>
            ELSE last'.err = "EOF"
      ]_storeVars

\* The store was opened again, without a Close, after a successful TruncateEntries
\* that left the entries of log, and nothing was appended since.
ReopenedAfterTruncate ==
    /\ last.op = "NewIndex" /\ last.after = "TruncateEntries"
    /\ log.known

\* C18: after TruncateEntries(m) and a reopen without Close, a read of a slot
\* s >= m returns no bytes that a discarded entry left there, and
\* InitializePosition does not put position beyond m * entryWidth.
C18_DiscardedStayUnreadable ==
    [][ReopenedAfterTruncate =>
         /\ (last'.op = "ReadEntryAtFileOffset" /\ last'.err = "nil"
                /\ last'.arg >= entryWidth * Len(log.entries))
               => SubSeq(file, last'.arg + 1, last'.arg + entryWidth) = Zeros(entryWidth)
         /\ (last'.op = "InitializePosition" /\ last'.err # "panic")
               => position' <= entryWidth * Len(log.entries)
      ]_storeVars

\* C19: while the store is open, position is a multiple of entryWidth between 0
\* and the length of the mapping.
C19_PositionInMapping ==
    status = "open" =>
        /\ position % entryWidth = 0
        /\ 0 <= position
        /\ position <= Len(file)

\* Thread t holds idx.mu.
Holds(t) == mu.writer = t \/ t \in mu.readers

\* Thread t stands at a request of idx.mu.
Requests(t) ==
    pc[t] \in {q[1] : q \in LockRequests} \cup {"WriteAt.Lock", "Lock", "fill.RLock"}

\* C20: no thread requests idx.mu while it holds it, and every call a thread has
\* made returns to it.
C20_EveryCallReturns ==
    /\ [](\A t \in Callers : ~(Holds(t) /\ Requests(t)))
    /\ \A t \in Callers : (pc[t] # "idle") ~> (pc[t] = "idle" /\ status = "open")

\* Short of a panic the lock is sound: no thread requests idx.mu while it holds
\* it, no lock stays held once the threads stand still, and every call returns
\* unless a call has panicked.
LockDiscipline ==
    /\ [](\A t \in Callers : ~(Holds(t) /\ Requests(t)))
    /\ \A t \in Callers : (pc[t] # "idle") ~> (pc[t] = "idle" \/ status = "crashed")

====
